---- MODULE Spec2Model ----
(***************************************************************************)
(* Comment planning, batched generation and source patching of             *)
(* CodeComprehender (src/src/commenter/comment_generator.py).              *)
(*                                                                         *)
(* Text is modelled as a sequence of tokens.  A token is an opaque piece   *)
(* of non-blank text, except " " (one blank), NL (the newline character)   *)
(* and SEP (the literal '---NEXT---').  Python's split, strip, rstrip,     *)
(* startswith and join are computed on these sequences.                    *)
(***************************************************************************)
EXTENDS Integers, Sequences, FiniteSets, TLC

VARIABLES
    entry,         \* the method the modelled call entered
    pc,            \* position of the call being modelled
    config,        \* the Config the generator was built with
    client,        \* CommentGenerator.client is set (TRUE) or None (FALSE)
    parsed_file,   \* the ParsedFile handed to add_comments
    source_lines,  \* parsed_file.source_code.split('\n')
    tasks,         \* the list of CommentTask returned by _plan_comments
    batch_num,     \* index of the batch the loop of _generate_all_comments is at
    task_num,      \* index, in that batch, of the task the fallback loop is at
    completed,     \* the list of (task, formatted comment) pairs
    requests,      \* every completion request issued so far, in order
    result,        \* what the call returned, or the exception it raised
    source,        \* the source argument of process_repository
    java_files,    \* the Java files of the project, each with its content
    worker,        \* per file: position and return value of its pool worker
    written,       \* the files written under the output directory
    exit_status,   \* exit status of the run, -1 while it runs
    all_classes,   \* ProjectStructure.classes (all_classes of the parser)
    edges,         \* DependencyGraph.edges
    reverse_edges, \* DependencyGraph.reverse_edges
    visited,       \* visited, in find_circular_dependencies
    cycles,        \* cycles, in find_circular_dependencies
    stack,         \* the active calls of dfs, innermost last
    pending,       \* the classes the outer loop has still to start from
    HAS_GRAPHVIZ,  \* the graphviz package could be imported
    project_info,  \* the project_info handed to generate_all
    raises,        \* the sub-outputs whose production raises
    class_diagram  \* the graph _generate_class_diagram rendered

commenter_vars == <<config, client, parsed_file, source_lines, tasks, batch_num,
                    task_num, completed, requests>>
run_vars == <<source, java_files, worker, written, exit_status>>
graph_vars == <<all_classes, edges, reverse_edges, visited, cycles, stack, pending>>

diagram_vars == <<HAS_GRAPHVIZ, project_info, raises, class_diagram>>

vars == <<entry, pc, result, commenter_vars, run_vars, graph_vars, diagram_vars>>

\* the state of the run and of the project structure while a method of the
\* comment generator is taken alone
RunIdle ==
    /\ source = "none"
    /\ java_files = <<>>
    /\ worker = <<>>
    /\ written = {}
    /\ exit_status = -1

\* no diagram has been asked for
NoDiagram == [rendered |-> FALSE, body |-> <<>>, edges |-> {}]
DiagramIdle ==
    /\ HAS_GRAPHVIZ = TRUE
    /\ project_info = [classes |-> <<>>]
    /\ raises = {}
    /\ class_diagram = NoDiagram

GraphIdle ==
    /\ all_classes = <<>>
    /\ edges = <<>>
    /\ reverse_edges = <<>>
    /\ visited = {}
    /\ cycles = <<>>
    /\ stack = <<>>
    /\ pending = <<>>

-----------------------------------------------------------------------------
(* Bounds of the model *)

MaxLines == 2
MaxPairs == 2

-----------------------------------------------------------------------------
(* Text *)

NL == "\n"
SEP == "---NEXT---"
Blank == {" ", NL}

Min(a, b) == IF a < b THEN a ELSE b
Max(a, b) == IF a > b THEN a ELSE b

IsPrefix(p, s) == Len(p) =< Len(s) /\ SubSeq(s, 1, Len(p)) = p

RECURSIVE LStrip(_)
LStrip(s) == IF s # <<>> /\ Head(s) \in Blank THEN LStrip(Tail(s)) ELSE s

RECURSIVE RStrip(_)
RStrip(s) ==
    IF s # <<>> /\ s[Len(s)] \in Blank THEN RStrip(SubSeq(s, 1, Len(s) - 1)) ELSE s

Strip(s) == LStrip(RStrip(s))

\* str.split(sep): the pieces between the occurrences of sep, at least one piece
RECURSIVE SplitFrom(_, _, _)
SplitFrom(s, sep, piece) ==
    IF s = <<>> THEN <<piece>>
    ELSE IF Head(s) = sep THEN <<piece>> \o SplitFrom(Tail(s), sep, <<>>)
    ELSE SplitFrom(Tail(s), sep, Append(piece, Head(s)))

Split(s, sep) == SplitFrom(s, sep, <<>>)

\* sep.join(parts)
RECURSIVE Join(_, _)
Join(parts, sep) ==
    IF parts = <<>> THEN <<>>
    ELSE IF Len(parts) = 1 THEN parts[1]
    ELSE parts[1] \o <<sep>> \o Join(Tail(parts), sep)

\* the leading run of blanks: re.match(r'^(\s*)', line).group(1)
RECURSIVE LeadingBlanks(_)
LeadingBlanks(s) ==
    IF s # <<>> /\ Head(s) \in Blank THEN <<Head(s)>> \o LeadingBlanks(Tail(s)) ELSE <<>>

-----------------------------------------------------------------------------
(* CommentTask and _format_comment *)

CommentTask(element_type, prompt, insert_line, indent, is_inline, max_tokens) ==
    [element_type |-> element_type, prompt |-> prompt, insert_line |-> insert_line,
     indent |-> indent, is_inline |-> is_inline, max_tokens |-> max_tokens]

format_comment(element_type, raw_comment) ==
    CASE element_type \in {"file", "class"} ->
            <<"/**", NL, " ", "*", " ">> \o raw_comment
               \o <<NL, " ", "*", " ", NL, " ", "*", " ", "@author", NL, " ", "*/">>
      [] element_type = "method" ->
            <<"/**", NL, " ", "*", " ">> \o raw_comment \o <<NL, " ", "*/">>
      [] element_type = "field" ->
            IF IsPrefix(<<"//">>, raw_comment) THEN raw_comment
            ELSE <<"//", " ">> \o raw_comment
      [] OTHER -> <<"//", " ">> \o raw_comment

-----------------------------------------------------------------------------
(* _insert_comments *)

Pair(task, text) == [task |-> task, text |-> text]

\* list.sort(key=insert_line, reverse=True): stable, equal keys keep their order
RECURSIVE InsertByLine(_, _)
InsertByLine(p, sorted) ==
    IF sorted = <<>> THEN <<p>>
    ELSE IF Head(sorted).task.insert_line >= p.task.insert_line
         THEN <<Head(sorted)>> \o InsertByLine(p, Tail(sorted))
         ELSE <<p>> \o sorted

RECURSIVE SortByLineDesc(_)
SortByLineDesc(pairs) ==
    IF pairs = <<>> THEN <<>>
    ELSE InsertByLine(pairs[Len(pairs)],
                      SortByLineDesc(SubSeq(pairs, 1, Len(pairs) - 1)))

\* the index a Python slice lines[i:i] designates in a list of length n
SliceIndex(i, n) == IF i < 0 THEN Max(0, n + i) ELSE Min(i, n)

ApplyPair(lines, p) ==
    IF p.task.is_inline
    THEN IF 0 =< p.task.insert_line /\ p.task.insert_line < Len(lines)
         THEN [lines EXCEPT ![p.task.insert_line + 1] =
                   RStrip(@) \o <<" ", " ">> \o p.text]
         ELSE lines
    ELSE LET comment_lines == Split(p.text, NL)
             indented_lines == [k \in 1..Len(comment_lines) |->
                                    p.task.indent \o comment_lines[k]]
             at == SliceIndex(p.task.insert_line, Len(lines))
         IN  SubSeq(lines, 1, at) \o indented_lines \o SubSeq(lines, at + 1, Len(lines))

RECURSIVE ApplyAll(_, _)
ApplyAll(lines, pairs) ==
    IF pairs = <<>> THEN lines ELSE ApplyAll(ApplyPair(lines, Head(pairs)), Tail(pairs))

insert_comments(lines, pairs) == Join(ApplyAll(lines, SortByLineDesc(pairs)), NL)

-----------------------------------------------------------------------------
(* Inputs of _insert_comments taken alone *)

LineNames == <<"a", "b", "c", "d", "e", "f">>

\* line arrays of 1..MaxLines lines, each with or without a trailing blank
LineArrays ==
    UNION {{[i \in 1..n |-> IF i \in padded THEN <<LineNames[i], " ">>
                            ELSE <<LineNames[i]>>] : padded \in SUBSET (1..n)}
           : n \in 1..MaxLines}

RawAnswers == {<<"s">>, <<"s", NL, "t">>}

\* tasks as _plan_comments builds them, at every line -1..MaxLines
PairValues ==
    {Pair(CommentTask("class", "Foo", l, ind, FALSE, 200), format_comment("class", <<"s">>))
        : l \in -1..MaxLines, ind \in {<<>>, <<" ">>}}
    \cup {Pair(CommentTask("method", "bar", l, <<" ">>, FALSE, 180), format_comment("method", <<"s">>))
        : l \in -1..MaxLines}
    \cup {Pair(CommentTask("field", "x", l, <<>>, TRUE, 50), format_comment("field", raw))
        : l \in -1..MaxLines, raw \in RawAnswers}

PairLists == UNION {[1..n -> PairValues] : n \in 0..MaxPairs}

NoFile == [source_code |-> <<>>, classes |-> <<>>]
NoConfig == [openai_api_key |-> FALSE]

InitInsert ==
    /\ DiagramIdle
    /\ entry = "_insert_comments"
    /\ pc = "insert"
    /\ source_lines \in LineArrays
    /\ completed \in PairLists
    /\ config = NoConfig
    /\ client = TRUE
    /\ parsed_file = NoFile
    /\ tasks = <<>>
    /\ batch_num = 0
    /\ task_num = 0
    /\ requests = <<>>
    /\ result = <<>>
    /\ RunIdle
    /\ GraphIdle

\* return self._insert_comments(source_lines, completed_tasks)
InsertComments ==
    /\ pc = "insert"
    /\ result' = insert_comments(source_lines, completed)
    /\ completed' = SortByLineDesc(completed)
    /\ pc' = "patched"
    /\ UNCHANGED <<entry, config, client, parsed_file, source_lines, tasks, batch_num,
                   task_num, requests>>
    /\ UNCHANGED <<run_vars, graph_vars, diagram_vars>>

NextInsert == InsertComments

SpecInsert == InitInsert /\ [][NextInsert]_vars

-----------------------------------------------------------------------------
(* _generate_all_comments: batches, reconciliation, individual fallback *)

batch_size == 7

\* batches = [tasks[i:i+batch_size] for i in range(0, len(tasks), batch_size)]
NumBatches(ts) == (Len(ts) + batch_size - 1) \div batch_size
\* variant of Batch in which a batch starts at the last task of the batch before it
Batch_Overlapping(ts, b) ==
    SubSeq(ts, Max((b - 1) * batch_size, 1), Min(b * batch_size, Len(ts)))

Batch(ts, b) ==
    SubSeq(ts, (b - 1) * batch_size + 1, Min(b * batch_size, Len(ts)))

\* one call of client.chat.completions.create, as the log of the model keeps it
Request(kind, ts) == [kind |-> kind, tasks |-> ts, outcome |-> "pending", content |-> <<>>]
CloseLast(reqs, outcome, content) ==
    [reqs EXCEPT ![Len(reqs)] = [@ EXCEPT !.outcome = outcome, !.content = content]]

\* what the completion service may answer
AnswerNames == <<"s1", "s2", "s3", "s4", "s5", "s6", "s7", "s8">>
GoodAnswer(i) == <<AnswerNames[i]>>
BlankAnswer == <<" ">>

\* the answers, each on lines of its own, separated by the sentinel
ResponseOf(parts) ==
    Join([i \in 1..Len(parts) |->
             (IF i > 1 THEN <<NL>> ELSE <<>>) \o parts[i]
                \o (IF i < Len(parts) THEN <<NL>> ELSE <<>>)], SEP)

\* responses to a batch of n tasks: a single answer, one answer too few, as
\* many, one too many, one blank answer among them, or no text at all
BatchResponses(n) ==
    {ResponseOf([i \in 1..m |-> GoodAnswer(i)]) : m \in {1, n - 1, n, n + 1} \ {0}}
    \cup {ResponseOf([i \in 1..n |-> IF i = k THEN BlankAnswer ELSE GoodAnswer(i)])
             : k \in 1..n}
    \cup {<<>>}

SingleOutcomes ==
    {[raised |-> TRUE, content |-> <<>>],
     [raised |-> FALSE, content |-> <<"s", NL>>],
     [raised |-> FALSE, content |-> BlankAnswer]}

parse_batch_response(response_text, ts) ==
    LET comment_parts == Split(response_text, SEP)
        RECURSIVE From(_)
        From(i) ==
            IF i > Len(ts) THEN <<>>
            ELSE (IF i =< Len(comment_parts) /\ Strip(comment_parts[i]) # <<>>
                  THEN <<Pair(ts[i], format_comment(ts[i].element_type,
                                                    Strip(comment_parts[i])))>>
                  ELSE <<>>) \o From(i + 1)
    IN  From(1)

\* the formatted comment, or None (modelled as the empty text: both are falsy)
generate_single_comment(task, outcome) ==
    IF outcome.raised THEN <<>>
    ELSE format_comment(task.element_type, Strip(outcome.content))

\* if individual_result: completed.append((task, individual_result))
KeepIndividual(done, task, individual_result) ==
    IF individual_result # <<>> THEN Append(done, Pair(task, individual_result)) ELSE done

\* the end of _generate_all_comments and, in add_comments, the patching after it
Return(done) ==
    IF entry = "add_comments"
    THEN /\ completed' = SortByLineDesc(done)
         /\ result' = insert_comments(source_lines, done)
         /\ pc' = "patched"
    ELSE /\ completed' = done
         /\ result' = done
         /\ pc' = "generated"

\* the loop over the batches, from batch b on: request batch b, or return
Continue(ts, b, done, reqs) ==
    IF b =< NumBatches(ts)
    THEN /\ batch_num' = b
         /\ task_num' = 0
         /\ completed' = done
         /\ requests' = Append(reqs, Request("batch", Batch(ts, b)))
         /\ pc' = "await_batch"
         /\ result' = result
    ELSE /\ Return(done)
         /\ requests' = reqs
         /\ UNCHANGED <<batch_num, task_num>>

\* the fallback after a failed batch call: request the first task alone
Fallback(reqs) ==
    /\ requests' = Append(reqs, Request("single", <<Batch(tasks, batch_num)[1]>>))
    /\ task_num' = 1
    /\ pc' = "await_single"
    /\ UNCHANGED <<batch_num, completed, result>>

\* the start of _generate_all_comments(ts), up to its first request; line 146
\* divides by len(tasks)
StartGenerate(ts) ==
    IF ts = <<>>
    THEN /\ pc' = "raised"
         /\ result' = <<"ZeroDivisionError">>
         /\ UNCHANGED <<batch_num, task_num, completed, requests>>
    ELSE Continue(ts, 1, <<>>, requests)

\* a call of _generate_all_comments taken alone
GenerateAllComments ==
    /\ pc = "generate"
    /\ StartGenerate(tasks)
    /\ UNCHANGED <<entry, config, client, parsed_file, source_lines, tasks>>
    /\ UNCHANGED <<run_vars, graph_vars, diagram_vars>>

\* the batch call returns: reconcile, then go on with the next batch
BatchResponse ==
    /\ pc = "await_batch"
    /\ \E response_text \in BatchResponses(Len(Batch(tasks, batch_num))) :
          Continue(tasks, batch_num + 1,
                   completed \o parse_batch_response(response_text, Batch(tasks, batch_num)),
                   CloseLast(requests, "ok", response_text))
    /\ UNCHANGED <<entry, config, client, parsed_file, source_lines, tasks>>
    /\ UNCHANGED <<run_vars, graph_vars, diagram_vars>>

\* variant of BatchRaises in which a failed batch is given up
BatchRaises_NoRetry ==
    /\ pc = "await_batch"
    /\ Continue(tasks, batch_num + 1, completed, CloseLast(requests, "raised", <<>>))
    /\ UNCHANGED <<entry, config, client, parsed_file, source_lines, tasks>>
    /\ UNCHANGED <<run_vars, graph_vars, diagram_vars>>

\* the batch call raises: fall back to individual requests
BatchRaises ==
    /\ pc = "await_batch"
    /\ Fallback(CloseLast(requests, "raised", <<>>))
    /\ UNCHANGED <<entry, config, client, parsed_file, source_lines, tasks>>
    /\ UNCHANGED <<run_vars, graph_vars, diagram_vars>>

\* an individual call returns or raises: keep the comment, go on with the next task
SingleResponse ==
    /\ pc = "await_single"
    /\ \E outcome \in SingleOutcomes :
          LET batch == Batch(tasks, batch_num)
              task == batch[task_num]
              done == KeepIndividual(completed, task, generate_single_comment(task, outcome))
              reqs == CloseLast(requests, IF outcome.raised THEN "raised" ELSE "ok",
                                outcome.content)
          IN  IF task_num < Len(batch)
              THEN /\ completed' = done
                   /\ requests' = Append(reqs, Request("single", <<batch[task_num + 1]>>))
                   /\ task_num' = task_num + 1
                   /\ UNCHANGED <<pc, batch_num, result>>
              ELSE Continue(tasks, batch_num + 1, done, reqs)
    /\ UNCHANGED <<entry, config, client, parsed_file, source_lines, tasks>>
    /\ UNCHANGED <<run_vars, graph_vars, diagram_vars>>

(* Inputs of _generate_all_comments taken alone *)

MaxTasks == 8

KindAt(i) == IF i = 1 THEN "file" ELSE IF i = 2 THEN "class"
             ELSE IF i % 3 = 0 THEN "field" ELSE "method"
TokensOf(kind) == CASE kind = "file" -> 150 [] kind = "class" -> 200
                    [] kind = "method" -> 180 [] OTHER -> 50
TaskAt(i) ==
    CommentTask(KindAt(i), ToString(i), i, IF KindAt(i) = "method" THEN <<" ">> ELSE <<>>,
                KindAt(i) = "field", TokensOf(KindAt(i)))

TaskLists == {[i \in 1..n |-> TaskAt(i + o)] : n \in 0..MaxTasks, o \in 0..2}

\* Config.batch_size ("How many files per batch"), of which the generator reads
\* nothing: the default of config.py, and the size the generator uses
DefaultBatchSize == 10
GenerateConfigs ==
    {[openai_api_key |-> TRUE, batch_size |-> n] : n \in {batch_size, DefaultBatchSize}}

InitGenerate ==
    /\ DiagramIdle
    /\ entry = "_generate_all_comments"
    /\ pc = "generate"
    /\ tasks \in TaskLists
    /\ source_lines = <<>>
    /\ completed = <<>>
    /\ config \in GenerateConfigs
    /\ client = TRUE
    /\ parsed_file = NoFile
    /\ batch_num = 0
    /\ task_num = 0
    /\ requests = <<>>
    /\ result = <<>>
    /\ RunIdle
    /\ GraphIdle

NextGenerate == GenerateAllComments \/ BatchResponse \/ BatchRaises \/ SingleResponse

SpecGenerate == InitGenerate /\ [][NextGenerate]_vars

-----------------------------------------------------------------------------
(* _plan_comments *)

FileScanLines == 10

\* stripped.startswith(('/**', '/*'))
StartsBlockComment(stripped) == stripped # <<>> /\ Head(stripped) \in {"/**", "/*"}
\* stripped.startswith('//')
StartsLineComment(stripped) == IsPrefix(<<"//">>, stripped)

RECURSIVE HasFileCommentFrom(_, _)
HasFileCommentFrom(lines, i) ==
    IF i > Min(Len(lines), FileScanLines) THEN FALSE
    ELSE LET stripped == Strip(lines[i])
         IN  IF StartsBlockComment(stripped) THEN TRUE
             ELSE IF stripped # <<>> /\ ~StartsLineComment(stripped) THEN FALSE
             ELSE HasFileCommentFrom(lines, i + 1)

has_file_comment(lines) == HasFileCommentFrom(lines, 1)

RECURSIVE FileCommentLocationFrom(_, _)
FileCommentLocationFrom(lines, i) ==
    IF i > Len(lines) THEN 0
    ELSE LET stripped == Strip(lines[i])
         IN  IF IsPrefix(<<"package", " ">>, stripped) THEN i      \* index i-1, plus 1
             ELSE IF stripped # <<>> /\ ~StartsLineComment(stripped) THEN i - 1
             ELSE FileCommentLocationFrom(lines, i + 1)

find_file_comment_location(lines) == FileCommentLocationFrom(lines, 1)

get_line_indent(lines, line_num) ==
    IF 0 =< line_num /\ line_num < Len(lines) THEN LeadingBlanks(lines[line_num + 1])
    ELSE <<>>

Lower(name) == CASE name = "Count" -> "count" [] name = "MAX" -> "max" [] OTHER -> name
ObviousNames == {"id", "name", "value", "count", "size", "length",
                 "index", "flag", "status", "result", "data", "item"}
is_obvious_field(field) == Lower(field.name) \in ObviousNames

Planned(ts) == [raised |-> FALSE, tasks |-> ts]
PlanRaised == [raised |-> TRUE, tasks |-> <<>>]
Then(first, rest) ==
    IF first.raised \/ rest.raised THEN PlanRaised ELSE Planned(first.tasks \o rest.tasks)

\* the loop over cls.methods; method.is_constructor is read of every method
RECURSIVE PlanMethods(_, _, _)
PlanMethods(methods, i, lines) ==
    IF i > Len(methods) THEN Planned(<<>>)
    ELSE IF methods[i].is_constructor = "absent" THEN PlanRaised
    ELSE Then(Planned(IF methods[i].is_constructor = "no" /\ methods[i].has_javadoc # "yes"
                      THEN <<CommentTask("method", methods[i].name,
                                         methods[i].line_number - 1,
                                         get_line_indent(lines, methods[i].line_number - 1),
                                         FALSE, 180)>>
                      ELSE <<>>),
              PlanMethods(methods, i + 1, lines))

\* the loop over cls.fields
RECURSIVE PlanFields(_, _)
PlanFields(fields, i) ==
    IF i > Len(fields) THEN Planned(<<>>)
    ELSE Then(Planned(IF /\ ~(fields[i].is_static /\ fields[i].is_final)
                         /\ fields[i].has_javadoc # "yes"
                         /\ ~is_obvious_field(fields[i])
                      THEN <<CommentTask("field", fields[i].name, fields[i].line_number,
                                         <<>>, TRUE, 50)>>
                      ELSE <<>>),
              PlanFields(fields, i + 1))

\* the loop over parsed_file.classes; cls.has_javadoc is read of every class
RECURSIVE PlanClasses(_, _, _, _)
PlanClasses(classes, i, lines, cfg) ==
    IF i > Len(classes) THEN Planned(<<>>)
    ELSE IF classes[i].has_javadoc = "absent" THEN PlanRaised
    ELSE Then(IF /\ classes[i].has_javadoc = "no"
                 /\ cfg.use_javadoc
                 /\ cfg.include_class_comments
              THEN Then(Planned(<<CommentTask("class", classes[i].name,
                                     classes[i].line_number - 1,
                                     get_line_indent(lines, classes[i].line_number - 1),
                                     FALSE, 200)>>),
                        Then(IF cfg.include_method_comments
                             THEN PlanMethods(classes[i].methods, 1, lines)
                             ELSE Planned(<<>>),
                             IF cfg.add_inline_comments
                             THEN PlanFields(classes[i].fields, 1)
                             ELSE Planned(<<>>)))
              ELSE Planned(<<>>),
              PlanClasses(classes, i + 1, lines, cfg))

plan_comments(file, lines, cfg) ==
    Then(Planned(IF cfg.include_file_comments /\ ~has_file_comment(lines)
                 THEN <<CommentTask("file", "File", find_file_comment_location(lines),
                                    <<>>, FALSE, 150)>>
                 ELSE <<>>),
         PlanClasses(file.classes, 1, lines, cfg))

-----------------------------------------------------------------------------
(* The files and configurations add_comments is run on *)

MaxMethods == 2

DefaultConfig ==
    [openai_api_key |-> TRUE, include_file_comments |-> TRUE, use_javadoc |-> TRUE,
     include_class_comments |-> TRUE, include_method_comments |-> TRUE,
     add_inline_comments |-> TRUE]

\* the default configuration, and the default with one setting turned off
Configs ==
    {DefaultConfig} \cup {[DefaultConfig EXCEPT ![k] = FALSE] : k \in DOMAIN DefaultConfig}

\* A file: an optional header comment, an optional package line, and no class
\* or one class Foo with an optional field and 0..MaxMethods methods.  attrs
\* tells whether the declaration objects carry the has_javadoc and
\* is_constructor attributes _plan_comments reads; ParsedClass, ParsedMethod and
\* ParsedField of java_parser.py carry neither.
Shapes ==
    {sh \in [header : {"none", "block", "line"}, package : BOOLEAN, attrs : BOOLEAN,
             cls : {"none", "plain", "documented"},
             field : {"none", "plain", "constant", "obvious", "documented"},
             methods : 0..MaxMethods, first : {"plain", "documented", "constructor"}] :
        /\ sh.cls = "none" => sh.field = "none" /\ sh.methods = 0
        /\ sh.methods = 0 => sh.first = "plain"
        /\ sh.first = "constructor" => sh.attrs}

DocLine(indent) == indent \o <<"/**", " ", "doc", " ", "*/">>
Count(b) == IF b THEN 1 ELSE 0
MethodNames == <<"bar", "m2", "m3", "m4">>

HeaderLines(sh) ==
    CASE sh.header = "block" -> <<(<<"/*", " ", "hdr", " ", "*/">>)>>
      [] sh.header = "line" -> <<(<<"//", " ", "hdr">>)>>
      [] OTHER -> <<>>
PackageLines(sh) == IF sh.package THEN <<(<<"package", " ", "com.x;">>)>> ELSE <<>>
FieldName(sh) == CASE sh.field = "constant" -> "MAX" [] sh.field = "obvious" -> "Count"
                   [] OTHER -> "x"
FieldLines(sh) ==
    IF sh.field = "none" THEN <<>>
    ELSE (IF sh.field = "documented" THEN <<DocLine(<<" ">>)>> ELSE <<>>)
         \o <<(<<" ", "int", " ", FieldName(sh), ";">>)>>
MethodLines(sh) ==
    IF sh.methods = 0 THEN <<>>
    ELSE (IF sh.first = "documented" THEN <<DocLine(<<" ">>)>> ELSE <<>>)
         \o [i \in 1..sh.methods |-> <<" ", "void", " ", MethodNames[i], "()", " ", "{}">>]
ClassLines(sh) ==
    IF sh.cls = "none" THEN <<>>
    ELSE (IF sh.cls = "documented" THEN <<DocLine(<<>>)>> ELSE <<>>)
         \o <<(<<"class", " ", "Foo", " ", "{">>)>>
         \o FieldLines(sh) \o MethodLines(sh) \o <<(<<"}">>)>>

SourceLinesOf(sh) == HeaderLines(sh) \o PackageLines(sh) \o ClassLines(sh)

\* node.position.line of the declarations (1-based)
ClassLineOf(sh) ==
    Len(HeaderLines(sh)) + Len(PackageLines(sh)) + Count(sh.cls = "documented") + 1
FieldLineOf(sh) == ClassLineOf(sh) + Count(sh.field = "documented") + 1
MethodLineOf(sh, i) ==
    ClassLineOf(sh) + Len(FieldLines(sh)) + Count(sh.first = "documented") + i

Attr(sh, documented) == IF ~sh.attrs THEN "absent" ELSE IF documented THEN "yes" ELSE "no"

ParsedField(sh) ==
    [name |-> FieldName(sh), is_static |-> sh.field = "constant",
     is_final |-> sh.field = "constant", documentation |-> sh.field = "documented",
     has_javadoc |-> Attr(sh, sh.field = "documented"), line_number |-> FieldLineOf(sh)]

ParsedMethod(sh, i) ==
    [name |-> MethodNames[i], documentation |-> (i = 1 /\ sh.first = "documented"),
     has_javadoc |-> Attr(sh, i = 1 /\ sh.first = "documented"),
     is_constructor |-> Attr(sh, i = 1 /\ sh.first = "constructor"),
     line_number |-> MethodLineOf(sh, i)]

ParsedClass(sh) ==
    [name |-> "Foo", documentation |-> sh.cls = "documented",
     has_javadoc |-> Attr(sh, sh.cls = "documented"), line_number |-> ClassLineOf(sh),
     fields |-> IF sh.field = "none" THEN <<>> ELSE <<ParsedField(sh)>>,
     methods |-> [i \in 1..sh.methods |-> ParsedMethod(sh, i)]]

ParsedFile(sh) ==
    [source_code |-> Join(SourceLinesOf(sh), NL),
     classes |-> IF sh.cls = "none" THEN <<>> ELSE <<ParsedClass(sh)>>]

-----------------------------------------------------------------------------
(* add_comments *)

Init ==
    /\ DiagramIdle
    /\ entry = "add_comments"
    /\ pc = "enter"
    /\ config \in Configs
    /\ parsed_file \in {ParsedFile(sh) : sh \in Shapes}
    /\ client = FALSE
    /\ source_lines = <<>>
    /\ tasks = <<>>
    /\ completed = <<>>
    /\ batch_num = 0
    /\ task_num = 0
    /\ requests = <<>>
    /\ result = <<>>
    /\ RunIdle
    /\ GraphIdle

\* variant of AEnter in which the client is built whether or not a key is configured
AEnter_AlwaysClient ==
    /\ pc = "enter"
    /\ client' = TRUE
    /\ pc' = "add_comments"
    /\ UNCHANGED <<entry, config, parsed_file, source_lines, tasks, batch_num, task_num,
                   completed, requests, result>>
    /\ UNCHANGED <<run_vars, graph_vars, diagram_vars>>

\* __aenter__: the client is built only when an API key is configured
AEnter ==
    /\ pc = "enter"
    /\ client' = config.openai_api_key
    /\ pc' = "add_comments"
    /\ UNCHANGED <<entry, config, parsed_file, source_lines, tasks, batch_num, task_num,
                   completed, requests, result>>
    /\ UNCHANGED <<run_vars, graph_vars, diagram_vars>>

\* variant of NoTasksReturn in which the early return of a file without tasks is missing
NoTasksReturn_Missing(comment_tasks) == FALSE

\* if not comment_tasks: return parsed_file.source_code
NoTasksReturn(comment_tasks) == comment_tasks = <<>>

\* add_comments, up to its first completion request or its return
AddComments ==
    /\ pc = "add_comments"
    /\ IF ~client
       THEN /\ result' = parsed_file.source_code
            /\ pc' = "returned"
            /\ UNCHANGED <<source_lines, tasks, batch_num, task_num, completed, requests>>
       ELSE LET lines == Split(parsed_file.source_code, NL)
                plan == plan_comments(parsed_file, lines, config)
            IN  /\ source_lines' = lines
                /\ IF plan.raised
                   THEN /\ pc' = "raised"
                        /\ result' = <<"AttributeError">>
                        /\ UNCHANGED <<tasks, batch_num, task_num, completed, requests>>
                   ELSE /\ tasks' = plan.tasks
                        /\ IF NoTasksReturn(plan.tasks)
                           THEN /\ result' = parsed_file.source_code
                                /\ pc' = "returned"
                                /\ UNCHANGED <<batch_num, task_num, completed, requests>>
                           ELSE StartGenerate(plan.tasks)
    /\ UNCHANGED <<entry, config, client, parsed_file>>
    /\ UNCHANGED <<run_vars, graph_vars, diagram_vars>>

Next == AEnter \/ AddComments \/ BatchResponse \/ BatchRaises \/ SingleResponse

Spec == Init /\ [][Next]_vars

(* add_comments on files told apart by what stands above their first        *)
(* declaration: line comments, then an optional block comment or blank     *)
(* line, an optional package line with or without an annotation            *)
(* (package-info.java), an optional block comment, an optional import, an  *)
(* optional block comment, and no class or one class Foo.                  *)

MaxFiller == 10

HeadShapes ==
    {h \in [filler : 0..MaxFiller, before : {"none", "block", "blank"},
             annotated : BOOLEAN, package : BOOLEAN, between : {"none", "block"},
             import : BOOLEAN, after : {"none", "block"},
             cls : {"none", "plain", "absent"}] :
        h.annotated => h.package}

LineCommentLine == <<"//", " ", "c">>
BlockLine == <<"/**", " ", "doc", " ", "*/">>
PackageLineOf == <<"package", " ", "com.x;">>
ImportLine == <<"import", " ", "a.B;">>
AnnotationLine == <<"@NonNullApi">>
ClassLine == <<"class", " ", "Foo", " ", "{}">>

Opt(b, line) == IF b THEN <<line>> ELSE <<>>

HeadLinesOf(h) ==
    [i \in 1..h.filler |-> LineCommentLine]
    \o Opt(h.before = "block", BlockLine) \o Opt(h.before = "blank", <<" ">>)
    \o Opt(h.annotated, AnnotationLine) \o Opt(h.package, PackageLineOf)
    \o Opt(h.between = "block", BlockLine)
    \o Opt(h.import, ImportLine)
    \o Opt(h.after = "block", BlockLine)

HeadFile(h) ==
    [source_code |-> Join(HeadLinesOf(h) \o Opt(h.cls # "none", ClassLine), NL),
     classes |->
        IF h.cls = "none" THEN <<>>
        ELSE <<[name |-> "Foo", documentation |-> FALSE,
                has_javadoc |-> IF h.cls = "absent" THEN "absent" ELSE "no",
                line_number |-> Len(HeadLinesOf(h)) + 1,
                fields |-> <<>>, methods |-> <<>>]>>]

InitHeads ==
    /\ DiagramIdle
    /\ entry = "add_comments"
    /\ pc = "enter"
    /\ config \in {DefaultConfig, [DefaultConfig EXCEPT !.include_file_comments = FALSE]}
    /\ parsed_file \in {HeadFile(h) : h \in HeadShapes}
    /\ client = FALSE
    /\ source_lines = <<>>
    /\ tasks = <<>>
    /\ completed = <<>>
    /\ batch_num = 0
    /\ task_num = 0
    /\ requests = <<>>
    /\ result = <<>>
    /\ RunIdle
    /\ GraphIdle

SpecHeads == InitHeads /\ [][Next]_vars

-----------------------------------------------------------------------------------------------------------------------------------------------------
(* DependencyGraph and ProjectStructure.build_dependency_graph             *)
(* (src/models/project_structure.py).  A class name is the pair of the     *)
(* text before its last '.' and the text after it; a name without '.' has  *)
(* pkg = "".                                                               *)

MaxDeps == 1
MaxAdded == 2

CommenterIdle ==
    /\ config = NoConfig
    /\ client = FALSE
    /\ parsed_file = NoFile
    /\ source_lines = <<>>
    /\ tasks = <<>>
    /\ batch_num = 0
    /\ task_num = 0
    /\ completed = <<>>
    /\ requests = <<>>

Name(pkg, name) == [pkg |-> pkg, name |-> name]

\* '.' in class_name
HasDot(class_name) == class_name.pkg # ""

\* d[k] = v on a dict
Put(d, k, v) == [x \in DOMAIN d \cup {k} |-> IF x = k THEN v ELSE d[x]]

\* self.edges.get(class_name, set())
get_dependencies(e, class_name) == IF class_name \in DOMAIN e THEN e[class_name] ELSE {}

\* self.reverse_edges.get(class_name, set())
get_dependents(r, class_name) == IF class_name \in DOMAIN r THEN r[class_name] ELSE {}

DependencyGraph == [edges |-> <<>>, reverse_edges |-> <<>>]

\* variant of add_dependency that records the forward edge only
add_dependency_forward_only(g, from_class, to_class) ==
    [edges |-> Put(g.edges, from_class, get_dependencies(g.edges, from_class) \cup {to_class}),
     reverse_edges |-> g.reverse_edges]

add_dependency(g, from_class, to_class) ==
    [edges |-> Put(g.edges, from_class, get_dependencies(g.edges, from_class) \cup {to_class}),
     reverse_edges |-> Put(g.reverse_edges, to_class,
                           get_dependents(g.reverse_edges, to_class) \cup {from_class})]

resolve_class_name(cls, class_name, current_package) ==
    IF HasDot(class_name) THEN class_name
    ELSE LET full_name == IF current_package # "" THEN Name(current_package, class_name.name)
                          ELSE class_name
             java_lang_name == Name("java.lang", class_name.name)
         IN  IF full_name \in DOMAIN cls THEN full_name
             ELSE IF java_lang_name \in DOMAIN cls THEN java_lang_name
             ELSE class_name

\* variant of InClasses that takes every resolved name for a class of the project
InClasses_Any(cls, resolved_dep) == TRUE

\* if resolved_dep in self.classes
InClasses(cls, resolved_dep) == resolved_dep \in DOMAIN cls

RECURSIVE AddDependencies(_, _, _, _)
\* for dependency in class_info.dependencies
AddDependencies(g, cls, class_info, deps) ==
    IF deps = {} THEN g
    ELSE LET dependency == CHOOSE d \in deps : TRUE
             resolved_dep == resolve_class_name(cls, dependency, class_info.package)
         IN  AddDependencies(IF InClasses(cls, resolved_dep)
                             THEN add_dependency(g, class_info.full_name, resolved_dep)
                             ELSE g,
                             cls, class_info, deps \ {dependency})

RECURSIVE BuildFrom(_, _, _)
\* for class_info in self.classes.values()
BuildFrom(g, cls, keys) ==
    IF keys = {} THEN g
    ELSE LET k == CHOOSE x \in keys : TRUE
         IN  BuildFrom(AddDependencies(g, cls, cls[k], cls[k].dependencies), cls, keys \ {k})

build_dependency_graph(cls) == BuildFrom(DependencyGraph, cls, DOMAIN cls)

\* the number of edges of the graph
EdgeCount(e) ==
    Cardinality({p \in (DOMAIN e) \X (UNION {e[k] : k \in DOMAIN e}) : p[2] \in e[p[1]]})

(* Projects *)

ClassNames == {Name("p", "A"), Name("p", "B"), Name("", "B")}
DepNames == {Name("", "A"), Name("", "B"), Name("p", "B"), Name("", "String")}
GraphNames == ClassNames \cup {Name("", "String")}

\* ClassInfo, as analyze_project_structure builds it: the key of a class is its full_name
ClassInfo(full_name, dependencies) ==
    [full_name |-> full_name, package |-> full_name.pkg, dependencies |-> dependencies]

DepSets == {d \in SUBSET DepNames : Cardinality(d) =< MaxDeps}

Projects ==
    UNION {{[k \in keys |-> ClassInfo(k, deps[k])] : deps \in [keys -> DepSets]} :
           keys \in SUBSET ClassNames \ {{}}}

InitGraph ==
    /\ DiagramIdle
    /\ entry = "DependencyGraph"
    /\ pc = "graph"
    /\ result = <<>>
    /\ all_classes \in Projects
    /\ edges = <<>>
    /\ reverse_edges = <<>>
    /\ visited = {}
    /\ cycles = <<>>
    /\ stack = <<>>
    /\ pending = <<>>
    /\ CommenterIdle
    /\ RunIdle

\* a call of dependency_graph.add_dependency
AddDependency ==
    /\ pc \in {"graph", "added", "built"}
    /\ EdgeCount(edges) < MaxAdded
    /\ \E from_class \in GraphNames, to_class \in GraphNames :
          LET g == add_dependency([edges |-> edges, reverse_edges |-> reverse_edges],
                                  from_class, to_class)
          IN  /\ edges' = g.edges
              /\ reverse_edges' = g.reverse_edges
    /\ pc' = "added"
    /\ UNCHANGED <<entry, result, all_classes, visited, cycles, stack, pending>>
    /\ UNCHANGED <<commenter_vars, run_vars, diagram_vars>>

\* a call of build_dependency_graph
BuildDependencyGraph ==
    /\ pc \in {"graph", "added"}
    /\ LET g == build_dependency_graph(all_classes)
       IN  /\ edges' = g.edges
           /\ reverse_edges' = g.reverse_edges
    /\ pc' = "built"
    /\ UNCHANGED <<entry, result, all_classes, visited, cycles, stack, pending>>
    /\ UNCHANGED <<commenter_vars, run_vars, diagram_vars>>

NextGraph == AddDependency \/ BuildDependencyGraph

SpecGraph == InitGraph /\ [][NextGraph]_vars

-----------------------------------------------------------------------------
(* ProjectStructure.find_circular_dependencies.  The recursion of dfs is     *)
(* the stack of its active calls; every call holds its own copy of the     *)
(* path and the neighbours its loop has not reached yet.  A dict is        *)
(* iterated in the order of its keys and a set in any order.               *)

MaxEdges == 4

\* path.index(node)
Index(path, node) == CHOOSE i \in 1..Len(path) : path[i] = node /\ \A j \in 1..(i - 1) : path[j] # node

InPath(path, node) == \E i \in 1..Len(path) : path[i] = node

\* variant of CycleOf that reports the whole path
CycleOf_WholePath(path, node) == path \o <<node>>

\* cycle = path[cycle_start:] + [node]
CycleOf(path, node) == SubSeq(path, Index(path, node), Len(path)) \o <<node>>

Frame(node, path, todo) == [node |-> node, path |-> path, todo |-> todo]

\* variant of dfs that tests visited before it looks for the node on the path
dfs_visited_first(node, path, calls) ==
    IF node \in visited
    THEN /\ stack' = calls
         /\ UNCHANGED <<visited, cycles>>
    ELSE IF InPath(path, node)
    THEN /\ cycles' = Append(cycles, CycleOf(path, node))
         /\ stack' = calls
         /\ UNCHANGED visited
    ELSE /\ visited' = visited \cup {node}
         /\ stack' = Append(calls, Frame(node, Append(path, node),
                                         get_dependencies(edges, node)))
         /\ UNCHANGED cycles

\* dfs(node, path), up to its loop over the neighbours; calls are the active calls
dfs(node, path, calls) ==
    IF InPath(path, node)
    THEN /\ cycles' = Append(cycles, CycleOf(path, node))
         /\ stack' = calls
         /\ UNCHANGED visited
    ELSE IF node \in visited
    THEN /\ stack' = calls
         /\ UNCHANGED <<visited, cycles>>
    ELSE /\ visited' = visited \cup {node}
         /\ stack' = Append(calls, Frame(node, Append(path, node),
                                         get_dependencies(edges, node)))
         /\ UNCHANGED cycles

\* the orders a dict with these keys can be iterated in
KeyOrders(keys) ==
    {o \in [1..Cardinality(keys) -> keys] : \A i, j \in DOMAIN o : o[i] = o[j] => i = j}

(* Projects whose graph has been built *)

CycleClasses == {Name("p", "A"), Name("p", "B"), Name("p", "C")}

EdgeSets == {e \in SUBSET (CycleClasses \X CycleClasses) : Cardinality(e) =< MaxEdges}

\* the project whose classes depend on each other as the pairs of e say
ProjectOf(e) ==
    [k \in CycleClasses |-> ClassInfo(k, {p[2] : p \in {q \in e : q[1] = k}})]

InitCycles ==
    /\ DiagramIdle
    /\ entry = "find_circular_dependencies"
    /\ pc = "find"
    /\ result = <<>>
    /\ \E e \in EdgeSets :
          /\ all_classes = ProjectOf(e)
          /\ edges = build_dependency_graph(ProjectOf(e)).edges
          /\ reverse_edges = build_dependency_graph(ProjectOf(e)).reverse_edges
    /\ visited = {}
    /\ cycles = <<>>
    /\ stack = <<>>
    /\ pending = <<>>
    /\ CommenterIdle
    /\ RunIdle

\* cycles = []; visited = set(); for class_name in self.classes
FindCircularDependencies ==
    /\ pc = "find"
    /\ pending' \in KeyOrders(DOMAIN all_classes)
    /\ cycles' = <<>>
    /\ visited' = {}
    /\ stack' = <<>>
    /\ pc' = "dfs"
    /\ UNCHANGED <<entry, result, all_classes, edges, reverse_edges>>
    /\ UNCHANGED <<commenter_vars, run_vars, diagram_vars>>

\* variant of DfsStart in which the search is started from the first class only
DfsStart_FirstClassOnly ==
    /\ pc = "dfs"
    /\ stack = <<>>
    /\ pending # <<>>
    /\ pending' = <<>>
    /\ IF Head(pending) \notin visited
       THEN dfs(Head(pending), <<>>, stack)
       ELSE UNCHANGED <<visited, cycles, stack>>
    /\ UNCHANGED <<entry, pc, result, all_classes, edges, reverse_edges>>
    /\ UNCHANGED <<commenter_vars, run_vars, diagram_vars>>

\* the outer loop: if class_name not in visited: dfs(class_name, [])
DfsStart ==
    /\ pc = "dfs"
    /\ stack = <<>>
    /\ pending # <<>>
    /\ pending' = Tail(pending)
    /\ IF Head(pending) \notin visited
       THEN dfs(Head(pending), <<>>, stack)
       ELSE UNCHANGED <<visited, cycles, stack>>
    /\ UNCHANGED <<entry, pc, result, all_classes, edges, reverse_edges>>
    /\ UNCHANGED <<commenter_vars, run_vars, diagram_vars>>

\* the loop of the innermost call: dfs(neighbor, path.copy())
DfsNeighbor ==
    /\ pc = "dfs"
    /\ stack # <<>>
    /\ LET top == stack[Len(stack)]
       IN  \E neighbor \in top.todo :
              dfs(neighbor, top.path,
                  [stack EXCEPT ![Len(stack)].todo = top.todo \ {neighbor}])
    /\ UNCHANGED <<entry, pc, result, all_classes, edges, reverse_edges, pending>>
    /\ UNCHANGED <<commenter_vars, run_vars, diagram_vars>>

\* the innermost call has been through its neighbours and returns
DfsReturn ==
    /\ pc = "dfs"
    /\ stack # <<>>
    /\ stack[Len(stack)].todo = {}
    /\ stack' = SubSeq(stack, 1, Len(stack) - 1)
    /\ UNCHANGED <<entry, pc, result, all_classes, edges, reverse_edges, visited, cycles,
                   pending>>
    /\ UNCHANGED <<commenter_vars, run_vars, diagram_vars>>

\* self.statistics.circular_dependencies = cycles; return cycles
FindReturn ==
    /\ pc = "dfs"
    /\ stack = <<>>
    /\ pending = <<>>
    /\ result' = cycles
    /\ pc' = "returned"
    /\ UNCHANGED <<entry, all_classes, edges, reverse_edges, visited, cycles, stack, pending>>
    /\ UNCHANGED <<commenter_vars, run_vars, diagram_vars>>

NextCycles == FindCircularDependencies \/ DfsStart \/ DfsNeighbor \/ DfsReturn \/ FindReturn

SpecCycles == InitCycles /\ [][NextCycles]_vars

\* the call is one thread of control that runs until it returns: a step that
\* can be taken is taken
SpecCyclesFair == SpecCycles /\ WF_vars(NextCycles)

-----------------------------------------------------------------------------
(* A run: main, CodeComprehender.process_repository, the pool of           *)
(* _analyze_and_comment_multiprocess and process_single_file_wrapper       *)
(* (src/src/main.py).  A file name is a sequence of pieces of text whose   *)
(* last piece is its extension; a path is a directory, as a sequence of    *)
(* names, and a file name.                                                 *)

MaxFiles == 2

\* os.cpu_count() of the machine the model runs on
CPU_COUNT == 3
MAX_PROCESSES == Max(1, (CPU_COUNT \div 2) + (CPU_COUNT % 2))

\* the methods class CommentGenerator defines
CommentGeneratorMethods ==
    {"__init__", "__aenter__", "__aexit__", "add_comments", "_plan_comments",
     "_generate_all_comments", "_generate_batch_comments", "_build_batch_prompt",
     "_extract_element_info_from_prompt", "_parse_batch_response",
     "_generate_single_comment", "_format_comment", "_build_file_prompt",
     "_build_class_prompt", "_build_method_prompt", "_build_field_prompt",
     "_insert_comments", "_has_file_comment", "_find_file_comment_location",
     "_get_line_indent", "_is_obvious_field"}

\* the methods class DiagramGenerator defines
DiagramGeneratorMethods ==
    {"__init__", "generate_all", "_generate_project_overview", "_generate_package_diagram",
     "_generate_class_diagram", "_generate_dependency_graph",
     "_generate_inheritance_diagram", "_generate_statistics_report",
     "_analyze_package_dependencies", "_find_class_package", "_get_visibility_symbol"}

Path(dir, name) == [dir |-> dir, name |-> name]

\* java_file.stem and java_file.suffix
Stem(name) == SubSeq(name, 1, Len(name) - 1)
Suffix(name) == <<name[Len(name)]>>

\* variant of output_file_path that leaves relative_path.parent out
output_file_path_flat(relative_path, file_suffix) ==
    Path(<<"output", "src">>,
         Stem(relative_path.name) \o file_suffix \o Suffix(relative_path.name))

\* output_dir / "src" / relative_path.parent / f"{stem}{file_suffix}{suffix}"
output_file_path(relative_path, file_suffix) ==
    Path(<<"output", "src">> \o relative_path.dir,
         Stem(relative_path.name) \o file_suffix \o Suffix(relative_path.name))

\* JavaParser.parse_file: what it returns, or that it raises
parse_file(file) ==
    IF file.parses
    THEN [raised |-> FALSE, source_code |-> file.source_code]
    ELSE [raised |-> TRUE, source_code |-> <<>>]

\* the worker of one file
Worker(at, has_client, parsed_content, raised, returned) ==
    [pc |-> at, client |-> has_client, parsed_content |-> parsed_content,
     commented_content_str |-> "none", raised |-> raised, result |-> returned]

Queued == Worker("queued", FALSE, "none", "none", "none")

\* variant of WorkerReturns without the except clause of the wrapper
WorkerReturns_NoExcept(w, raised) ==
    IF raised = "none"
    THEN [w EXCEPT !.pc = "done", !.client = FALSE, !.result = TRUE]
    ELSE [w EXCEPT !.pc = "raised", !.client = FALSE, !.raised = raised]

\* try: asyncio.run(...); return True / except Exception: return False
WorkerReturns(w, raised) ==
    IF raised = "none"
    THEN [w EXCEPT !.pc = "done", !.client = FALSE, !.result = TRUE]
    ELSE [w EXCEPT !.pc = "done", !.client = FALSE, !.raised = raised, !.result = FALSE]

(* Projects and sources *)

\* the Java files a project can hold, in sorted order
AllPaths ==
    <<Path(<<>>, <<"A", ".java">>), Path(<<>>, <<"A", "_commented", ".java">>),
      Path(<<"a">>, <<"A", ".java">>), Path(<<"a">>, <<"A", "_commented", ".java">>)>>

JavaFile(i, parses) ==
    [path |-> AllPaths[i], parses |-> parses, source_code |-> <<"class", ToString(i)>>]

\* find_java_files: a sorted list of distinct files
\* the increasing lists of n indices into AllPaths
Choices(n) ==
    {f \in [1..n -> 1..Len(AllPaths)] : \A k \in 1..(n - 1) : f[k] < f[k + 1]}

JavaFileLists ==
    UNION {UNION {{[k \in 1..n |-> JavaFile(idx[k], ok[k])] : ok \in [1..n -> BOOLEAN]} :
                  idx \in Choices(n)} :
           n \in 0..MaxFiles}

Sources ==
    {[github |-> TRUE, clones |-> c, exists |-> FALSE, is_dir |-> FALSE, mkdir |-> m] :
        c \in BOOLEAN, m \in BOOLEAN}
    \cup {[github |-> FALSE, clones |-> FALSE, exists |-> e, is_dir |-> e /\ d, mkdir |-> m] :
        e \in BOOLEAN, d \in BOOLEAN, m \in BOOLEAN}

\* the exception process_repository meets before it starts on the project
SourceRaises(src) ==
    IF src.github
    THEN IF ~src.clones THEN "RuntimeError" ELSE IF ~src.mkdir THEN "OSError" ELSE "none"
    ELSE IF ~src.exists THEN "ValueError"
    ELSE IF ~src.is_dir THEN "ValueError"
    ELSE IF ~src.mkdir THEN "OSError" ELSE "none"

FileSuffixes == {<<"_commented">>, <<>>}

RunConfigs ==
    {[openai_api_key |-> k, comments_only |-> c, architecture_only |-> a,
      file_suffix |-> x] : k \in BOOLEAN, c \in BOOLEAN, a \in BOOLEAN, x \in FileSuffixes}

InitRepository ==
    /\ DiagramIdle
    /\ entry = "process_repository"
    /\ pc = "process_repository"
    /\ result = <<>>
    /\ config \in {c \in RunConfigs : c.file_suffix = <<"_commented">>}
    /\ source \in Sources
    /\ java_files \in IF SourceRaises(source) = "none" THEN JavaFileLists ELSE {<<>>}
    /\ worker = <<>>
    /\ written = {}
    /\ exit_status = -1
    /\ client = FALSE
    /\ parsed_file = NoFile
    /\ source_lines = <<>>
    /\ tasks = <<>>
    /\ batch_num = 0
    /\ task_num = 0
    /\ completed = <<>>
    /\ requests = <<>>
    /\ GraphIdle

\* process_repository, up to the processing of the project
ProcessRepository ==
    /\ pc = "process_repository"
    /\ IF SourceRaises(source) # "none"
       THEN /\ pc' = "returned"
            /\ result' = <<"None", SourceRaises(source)>>
       ELSE /\ pc' = IF ~config.architecture_only THEN "comment" ELSE "architecture"
            /\ UNCHANGED result
    /\ UNCHANGED <<entry, commenter_vars, run_vars, graph_vars, diagram_vars>>

\* _analyze_and_comment_multiprocess, up to the start of the pool
AnalyzeAndComment ==
    /\ pc = "comment"
    /\ IF java_files = <<>>
       THEN /\ pc' = "architecture"
            /\ UNCHANGED worker
       ELSE /\ pc' = "pool"
            /\ worker' = [f \in 1..Len(java_files) |-> Queued]
    /\ UNCHANGED <<entry, result, source, java_files, written, exit_status>>
    /\ UNCHANGED <<commenter_vars, graph_vars, diagram_vars>>

Running == {f \in DOMAIN worker : worker[f].pc \notin {"queued", "done", "raised"}}

\* a pool process takes the next file: the wrapper up to __aenter__
WorkerEnter(f) ==
    /\ pc = "pool"
    /\ worker[f].pc = "queued"
    /\ \A g \in 1..(f - 1) : worker[g].pc # "queued"
    /\ Cardinality(Running) < Min(MAX_PROCESSES, Len(java_files))
    /\ worker' = [worker EXCEPT ![f] = Worker("parse", config.openai_api_key, "none",
                                              "none", "none")]
    /\ UNCHANGED <<entry, pc, result, source, java_files, written, exit_status>>
    /\ UNCHANGED <<commenter_vars, graph_vars, diagram_vars>>

\* parsed_content = parser.parse_file(java_file)
WorkerParse(f) ==
    /\ pc = "pool"
    /\ worker[f].pc = "parse"
    /\ LET parsed == parse_file(java_files[f])
       IN  worker' = [worker EXCEPT ![f] =
                        IF parsed.raised THEN WorkerReturns(@, "parse_file")
                        ELSE [@ EXCEPT !.pc = "generate", !.parsed_content = parsed]]
    /\ UNCHANGED <<entry, pc, result, source, java_files, written, exit_status>>
    /\ UNCHANGED <<commenter_vars, graph_vars, diagram_vars>>

\* await comment_generator.generate_comments_async(parsed_content, java_file):
\* CommentGenerator has no such method, the attribute lookup raises AttributeError
WorkerGenerate(f) ==
    /\ pc = "pool"
    /\ worker[f].pc = "generate"
    /\ "generate_comments_async" \notin CommentGeneratorMethods
    /\ worker' = [worker EXCEPT ![f] = WorkerReturns(@, "generate_comments_async")]
    /\ UNCHANGED <<entry, pc, result, source, java_files, written, exit_status>>
    /\ UNCHANGED <<commenter_vars, graph_vars, diagram_vars>>

\* the pool has returned a result for every file
PoolJoin ==
    /\ pc = "pool"
    /\ \A f \in DOMAIN worker : worker[f].pc = "done"
    /\ pc' = "architecture"
    /\ UNCHANGED <<entry, result, commenter_vars, run_vars, graph_vars, diagram_vars>>

\* _generate_architecture: DiagramGenerator has no generate_diagrams, the
\* AttributeError is caught and logged in _generate_architecture
GenerateArchitecture ==
    /\ pc = "architecture"
    /\ pc' = "returned"
    /\ result' = IF ~config.comments_only /\ "generate_diagrams" \notin DiagramGeneratorMethods
                 THEN <<"None", "AttributeError">>
                 ELSE <<"None", "none">>
    /\ UNCHANGED <<entry, commenter_vars, run_vars, graph_vars, diagram_vars>>

\* main after process_repository: sys.exit(1) if it raised, else the run ends
MainExit ==
    /\ pc \in {"returned", "raised"}
    /\ exit_status' = IF pc = "raised" THEN 1 ELSE 0
    /\ pc' = "exited"
    /\ UNCHANGED <<entry, result, source, java_files, worker, written>>
    /\ UNCHANGED <<commenter_vars, graph_vars, diagram_vars>>

NextRepository ==
    \/ ProcessRepository
    \/ AnalyzeAndComment
    \/ \E f \in DOMAIN worker : WorkerEnter(f)
    \/ \E f \in DOMAIN worker : WorkerParse(f)
    \/ \E f \in DOMAIN worker : WorkerGenerate(f)
    \/ PoolJoin
    \/ GenerateArchitecture
    \/ MainExit

SpecRepository == InitRepository /\ [][NextRepository]_vars

-----------------------------------------------------------------------------
(* The end of _perform_file_processing_async taken alone: the output path  *)
(* of a file and save_commented_file, for the files of one project         *)

\* what the comment generator handed back for a file: its text, or a commented text
CommentedContents(file) == {file.source_code, <<"/**", "*/">> \o file.source_code}

InitSave ==
    /\ DiagramIdle
    /\ entry = "save_commented_file"
    /\ pc = "pool"
    /\ result = <<>>
    /\ config \in RunConfigs
    /\ source = [github |-> FALSE, clones |-> FALSE, exists |-> TRUE, is_dir |-> TRUE,
                 mkdir |-> TRUE]
    /\ java_files \in {l \in JavaFileLists : l # <<>> /\ \A f \in DOMAIN l : l[f].parses}
    /\ worker \in {w \in [DOMAIN java_files -> UNION {{[Worker("save", config.openai_api_key,
                                  parse_file(java_files[f]), "none", "none")
                                  EXCEPT !.commented_content_str = c] :
                                      c \in CommentedContents(java_files[f])} :
                                  f \in DOMAIN java_files}] :
                     \A f \in DOMAIN java_files :
                        /\ w[f].parsed_content = parse_file(java_files[f])
                        /\ w[f].commented_content_str \in CommentedContents(java_files[f])}
    /\ written = {}
    /\ exit_status = -1
    /\ client = FALSE
    /\ parsed_file = NoFile
    /\ source_lines = <<>>
    /\ tasks = <<>>
    /\ batch_num = 0
    /\ task_num = 0
    /\ completed = <<>>
    /\ requests = <<>>
    /\ GraphIdle

\* the output path, file_handler.save_commented_file and the return of the wrapper
SaveFile(f) ==
    /\ pc = "pool"
    /\ worker[f].pc = "save"
    /\ \E saved \in BOOLEAN :
          IF saved
          THEN /\ written' = written \cup
                     {[path |-> output_file_path(java_files[f].path, config.file_suffix),
                       content |-> worker[f].commented_content_str, by |-> f]}
               /\ worker' = [worker EXCEPT ![f] = WorkerReturns(@, "none")]
          ELSE /\ worker' = [worker EXCEPT ![f] = WorkerReturns(@, "save_commented_file")]
               /\ UNCHANGED written
    /\ UNCHANGED <<entry, pc, result, source, java_files, exit_status>>
    /\ UNCHANGED <<commenter_vars, graph_vars, diagram_vars>>

NextSave == \E f \in DOMAIN worker : SaveFile(f)

SpecSave == InitSave /\ [][NextSave]_vars

-----------------------------------------------------------------------------
(* DiagramGenerator.generate_all and _generate_class_diagram                *)
(* (src/src/architecture/diagram_generator.py).  A class of project_info   *)
(* is its simple name and the simple name of the class it extends, "" for  *)
(* none.  A rendered graph has one node for every node id of its body: a   *)
(* second node statement with the id of an earlier one adds no node.       *)

MaxClasses == 4
MaxRaising == 2

\* Config.max_classes_in_diagram
DefaultMaxClasses == 50

\* the sub-outputs, in the order generate_all produces them
SubOutputs ==
    <<"project_overview", "package_structure", "class_diagram", "dependency_graph",
      "inheritance_hierarchy", "architecture_report">>

\* output_file.with_suffix(f'.{self.config.diagram_format}'), and the report file
FileOf(k, cfg) ==
    [name |-> k, suffix |-> IF k = "architecture_report" THEN "md" ELSE cfg.diagram_format]

\* the value None, among files
None == [name |-> "None", suffix |-> ""]

\* what the sub-output returns when it does not raise: its file, or None for
\* the inheritance diagram of classes without inheritance
Returned(k, info, cfg) ==
    IF /\ k = "inheritance_hierarchy"
       /\ \A i \in 1..Len(info.classes) : info.classes[i].extends = ""
    THEN None
    ELSE FileOf(k, cfg)

\* the body of the try block of generate_all from the i-th sub-output on; an
\* exception of a sub-output leaves the block
RECURSIVE GenerateFrom(_, _, _, _, _)
GenerateFrom(i, generated, info, cfg, raising) ==
    IF i > Len(SubOutputs) THEN generated
    ELSE IF SubOutputs[i] \in raising THEN generated
    ELSE GenerateFrom(i + 1,
                      IF Returned(SubOutputs[i], info, cfg) # None
                      THEN Append(generated, Returned(SubOutputs[i], info, cfg))
                      ELSE generated,
                      info, cfg, raising)

generate_all(info, cfg, has_graphviz, raising) ==
    IF ~has_graphviz THEN <<>> ELSE GenerateFrom(1, <<>>, info, cfg, raising)

\* the sub-outputs generate_all gets to
Reached(raising) ==
    {SubOutputs[i] : i \in {j \in 1..Len(SubOutputs) :
                                \A k \in 1..(j - 1) : SubOutputs[k] \notin raising}}

\* _generate_class_diagram: a node statement for each of the first
\* max_classes classes, under the id cls.name, and an edge to the class it
\* extends when that class is among them
generate_class_diagram(info, cfg) ==
    LET classes == SubSeq(info.classes, 1, Min(cfg.max_classes_in_diagram, Len(info.classes)))
        class_names == {classes[i].name : i \in 1..Len(classes)}
    IN  [rendered |-> TRUE,
         body |-> [i \in 1..Len(classes) |-> classes[i].name],
         edges |-> {<<classes[i].name, classes[i].extends>> :
                       i \in {j \in 1..Len(classes) : classes[j].extends \in class_names}}]

\* the nodes of a rendered graph
NodesOf(diagram) == {diagram.body[i] : i \in 1..Len(diagram.body)}

(* Calls of generate_all *)

SimpleNames == {"A", "B", "C"}

\* the classes of a project, in declaration order; in a project with
\* inheritance every class B extends A
ClassLists ==
    UNION {[1..n -> SimpleNames] : n \in 0..MaxClasses}
ProjectInfos ==
    {[classes |-> [i \in 1..Len(names) |->
                      [name |-> names[i],
                       extends |-> IF inherits /\ names[i] = "B" THEN "A" ELSE ""]]]
        : names \in ClassLists, inherits \in BOOLEAN}

DiagramConfigs ==
    {[max_classes_in_diagram |-> k, diagram_format |-> "png"] : k \in {2, DefaultMaxClasses}}

InitDiagrams ==
    /\ entry = "generate_all"
    /\ pc = "generate_all"
    /\ result = <<>>
    /\ config \in DiagramConfigs
    /\ HAS_GRAPHVIZ \in BOOLEAN
    /\ project_info \in ProjectInfos
    /\ raises \in {r \in SUBSET {SubOutputs[i] : i \in 1..Len(SubOutputs)} :
                       Cardinality(r) =< MaxRaising}
    /\ class_diagram = NoDiagram
    /\ client = FALSE
    /\ parsed_file = NoFile
    /\ source_lines = <<>>
    /\ tasks = <<>>
    /\ batch_num = 0
    /\ task_num = 0
    /\ completed = <<>>
    /\ requests = <<>>
    /\ RunIdle
    /\ GraphIdle

\* generate_all(project_info, output_dir)
GenerateAll ==
    /\ pc = "generate_all"
    /\ result' = generate_all(project_info, config, HAS_GRAPHVIZ, raises)
    /\ class_diagram' =
          IF HAS_GRAPHVIZ /\ "class_diagram" \in Reached(raises) \ raises
          THEN generate_class_diagram(project_info, config)
          ELSE class_diagram
    /\ pc' = "returned"
    /\ UNCHANGED <<entry, HAS_GRAPHVIZ, project_info, raises>>
    /\ UNCHANGED <<commenter_vars, run_vars, graph_vars>>

NextDiagrams == GenerateAll

SpecDiagrams == InitDiagrams /\ [][NextDiagrams]_vars

-----
(* Properties of _insert_comments *)

OutLines == Split(result, NL)

RECURSIVE BlockLinesOf(_)
BlockLinesOf(pairs) ==
    IF pairs = <<>> THEN 0
    ELSE (IF Head(pairs).task.is_inline THEN 0 ELSE Len(Split(Head(pairs).text, NL)))
         + BlockLinesOf(Tail(pairs))

Orderings(s) ==
    {[i \in 1..Len(s) |-> s[f[i]]] :
        f \in {g \in [1..Len(s) -> 1..Len(s)] : \A i, j \in 1..Len(s) : g[i] = g[j] => i = j}}

ValidLine(l) == 0 =< l /\ l < Len(source_lines)

\* the lines a block pair splices in
IndentedLines(p) ==
    LET comment_lines == Split(p.text, NL)
    IN  [k \in 1..Len(comment_lines) |-> p.task.indent \o comment_lines[k]]

\* output line k is original line i, possibly with inline comments appended
IsOriginal(k, i) == IsPrefix(RStrip(source_lines[i]), OutLines[k])

\* C2: the output has as many lines as the input plus the lines of the block
\* comments; inline comments add none.
C2_LineCount ==
    pc = "patched" => Len(OutLines) = Len(source_lines) + BlockLinesOf(completed)

\* C3: the patched text is the same for every arrival order of the same
\* completed pairs.
C3_OrderInvariant ==
    pc = "patched" =>
        \A perm \in Orderings(completed) : insert_comments(source_lines, perm) = result

\* C4: with valid insert lines, every block comment sits, indented, immediately
\* before the original line its insert_line designates, and the original lines
\* keep their relative order.
C4_BlocksBeforeTarget ==
    (pc = "patched" /\ \A j \in 1..Len(completed) : ValidLine(completed[j].task.insert_line)) =>
        /\ \A j \in 1..Len(completed) :
              ~completed[j].task.is_inline =>
                 LET ins == IndentedLines(completed[j])
                 IN  \E k \in 1..Len(OutLines) :
                        /\ k + Len(ins) =< Len(OutLines)
                        /\ SubSeq(OutLines, k, k + Len(ins) - 1) = ins
                        /\ IsOriginal(k + Len(ins), completed[j].task.insert_line + 1)
        /\ \E pos \in [1..Len(source_lines) -> 1..Len(OutLines)] :
              /\ \A i \in 1..Len(source_lines) : IsOriginal(pos[i], i)
              /\ \A i, j \in 1..Len(source_lines) : i < j => pos[i] < pos[j]

\* C5: an inline comment and a block comment of the same insert line: the inline
\* comment is appended to the original line, never to a line of the block.
C5_InlineBeforeBlock ==
    pc = "patched" =>
        \A i, j \in 1..Len(completed) :
            (/\ completed[i].task.is_inline
             /\ ~completed[j].task.is_inline
             /\ completed[i].task.insert_line = completed[j].task.insert_line
             /\ ValidLine(completed[i].task.insert_line)) =>
                /\ \E k \in 1..Len(OutLines) :
                      IsPrefix(RStrip(source_lines[completed[i].task.insert_line + 1])
                                  \o <<" ", " ">> \o Split(completed[i].text, NL)[1],
                               OutLines[k])
                /\ \A k \in 1..Len(OutLines) :
                      ~IsPrefix(IndentedLines(completed[j])[1] \o <<" ", " ">>, OutLines[k])

-----------------------------------------------------------------------------
(* Properties of _generate_all_comments *)

HasPair(t) == \E j \in 1..Len(completed) : completed[j].task = t
BatchRequests == {k \in 1..Len(requests) : requests[k].kind = "batch"}
SinglesOf(t) == {k \in 1..Len(requests) :
                    requests[k].kind = "single" /\ requests[k].tasks = <<t>>}
Generating == entry = "_generate_all_comments" /\ tasks # <<>>

\* C8: the i-th segment of a response goes to the i-th task of the request; a
\* missing or blank answer gives no pair, on the batch path and on the
\* individual path, and never raises.
C8_EmptyAnswersDropped ==
    Generating =>
        /\ pc # "raised"
        /\ \A j \in 1..Len(completed) :
              completed[j].text # format_comment(completed[j].task.element_type, <<>>)
        /\ \A k \in BatchRequests :
              requests[k].outcome = "ok" =>
                 LET parts == Split(requests[k].content, SEP)
                 IN  \A i \in 1..Len(requests[k].tasks) :
                        IF i =< Len(parts) /\ Strip(parts[i]) # <<>>
                        THEN \E j \in 1..Len(completed) :
                                completed[j] = Pair(requests[k].tasks[i],
                                    format_comment(requests[k].tasks[i].element_type,
                                                   Strip(parts[i])))
                        ELSE ~HasPair(requests[k].tasks[i])

\* the batch path alone of C8 (the part of it the code keeps)
BatchPathDropsEmptyAnswers ==
    Generating =>
        \A k \in BatchRequests :
            requests[k].outcome = "ok" =>
               \A i \in 1..Len(requests[k].tasks) :
                  HasPair(requests[k].tasks[i]) =>
                     /\ i =< Len(Split(requests[k].content, SEP))
                     /\ Strip(Split(requests[k].content, SEP)[i]) # <<>>

\* C9: after a batch call raised, each task of the batch is requested alone
\* exactly once, is kept when that request succeeds and dropped when it fails,
\* and the call goes on to its end; 7 tasks and 7 successful retries give 7
\* comments.
C9_FallbackRetriesOnce ==
    Generating =>
        /\ pc # "raised"
        /\ \A k \in BatchRequests : \A i \in 1..Len(requests[k].tasks) :
              LET t == requests[k].tasks[i]
              IN  /\ Cardinality(SinglesOf(t)) =< 1
                  /\ requests[k].outcome # "raised" => SinglesOf(t) = {}
                  /\ (requests[k].outcome = "raised" /\ pc = "generated") =>
                        /\ Cardinality(SinglesOf(t)) = 1
                        /\ \A r \in SinglesOf(t) :
                              HasPair(t) <=> requests[r].outcome = "ok"
        /\ (/\ pc = "generated"
            /\ Len(tasks) = batch_size
            /\ requests[1].outcome = "raised"
            /\ \A k \in 2..Len(requests) : requests[k].outcome = "ok")
              => Len(completed) = batch_size

C9_Witness ==
    /\ Generating
    /\ pc = "generated"
    /\ Len(tasks) = batch_size
    /\ requests[1].outcome = "raised"
    /\ Len(requests) = batch_size + 1
    /\ \A k \in 2..Len(requests) : requests[k].outcome = "ok"
    /\ Len(completed) = batch_size

\* C10: a batch call that is outstanding holds back no sibling batch (every
\* batch of the file has been requested), and nothing is reconciled before all
\* the batch calls of the file have finished.
C10_BatchesIndependent ==
    Generating =>
        /\ pc = "await_batch" => Cardinality(BatchRequests) = NumBatches(tasks)
        /\ completed # <<>> =>
              /\ Cardinality(BatchRequests) = NumBatches(tasks)
              /\ \A k \in BatchRequests : requests[k].outcome # "pending"

\* what the code does instead: the batches are requested one after the other
BatchesAreSequential ==
    Generating =>
        /\ Cardinality({k \in 1..Len(requests) : requests[k].outcome = "pending"}) =< 1
        /\ pc = "await_batch" => Cardinality(BatchRequests) = batch_num

-----------------------------------------------------------------------------
(* Properties of add_comments and _plan_comments *)

\* add_comments has got past planning, with a client
PlanningDone == entry = "add_comments" /\ client /\ pc \notin {"enter", "add_comments"}
PlanOfFile == plan_comments(parsed_file, Split(parsed_file.source_code, NL), config)
HasTask(element_type, name) ==
    \E j \in 1..Len(tasks) : tasks[j].element_type = element_type /\ tasks[j].prompt = name

\* C1: a file whose planning yields no task comes back as its original text,
\* and no completion request is issued for it.
C1_NoTasksUnchanged ==
    (PlanningDone /\ ~PlanOfFile.raised /\ PlanOfFile.tasks = <<>>) =>
        /\ pc = "returned"
        /\ result = parsed_file.source_code
        /\ requests = <<>>

C1_Witness ==
    /\ PlanningDone
    /\ ~PlanOfFile.raised
    /\ PlanOfFile.tasks = <<>>
    /\ pc = "returned"
    /\ result = parsed_file.source_code
    /\ Len(Split(result, NL)) > 1
    /\ requests = <<>>

\* C6: no task is planned for a documented class, method or field, and under
\* the default configuration every undocumented non-constructor method and
\* every eligible field of a documented class has its own task.
C6_DocumentedNeverPlanned ==
    PlanningDone =>
        \A c \in 1..Len(parsed_file.classes) :
            LET cls == parsed_file.classes[c]
            IN  /\ cls.documentation => ~HasTask("class", cls.name)
                /\ \A m \in 1..Len(cls.methods) :
                      cls.methods[m].documentation => ~HasTask("method", cls.methods[m].name)
                /\ \A f \in 1..Len(cls.fields) :
                      cls.fields[f].documentation => ~HasTask("field", cls.fields[f].name)
                /\ (cls.documentation /\ config = DefaultConfig) =>
                      /\ \A m \in 1..Len(cls.methods) :
                            (/\ ~cls.methods[m].documentation
                             /\ cls.methods[m].is_constructor # "yes")
                                => HasTask("method", cls.methods[m].name)
                      /\ \A f \in 1..Len(cls.fields) :
                            (/\ ~cls.fields[f].documentation
                             /\ ~(cls.fields[f].is_static /\ cls.fields[f].is_final)
                             /\ ~is_obvious_field(cls.fields[f]))
                                => HasTask("field", cls.fields[f].name)

\* the first half of C6 alone
DocumentedNeverPlanned ==
    PlanningDone =>
        \A c \in 1..Len(parsed_file.classes) :
            LET cls == parsed_file.classes[c]
            IN  /\ cls.documentation => ~HasTask("class", cls.name)
                /\ \A m \in 1..Len(cls.methods) :
                      cls.methods[m].documentation => ~HasTask("method", cls.methods[m].name)
                /\ \A f \in 1..Len(cls.fields) :
                      cls.fields[f].documentation => ~HasTask("field", cls.fields[f].name)

\* the file of the scenario: a package line, class Foo, one undocumented method
\* bar, no file comment
ScenarioFiles ==
    {ParsedFile(sh) : sh \in {x \in Shapes : /\ x.header = "none" /\ x.package
                                             /\ x.cls # "none" /\ x.field = "none"
                                             /\ x.methods = 1 /\ x.first = "plain"}}
PackageLine == <<"package", " ", "com.x;">>
BarLine == <<" ", "void", " ", "bar", "()", " ", "{}">>
LinesAt(line) == {k \in 1..Len(OutLines) : OutLines[k] = line}
InsertedOpeners == {k \in 1..Len(OutLines) : Strip(OutLines[k]) = <<"/**">>}
RECURSIVE WithoutInserted(_, _)
WithoutInserted(out, orig) ==
    IF out = <<>> THEN <<>>
    ELSE IF orig # <<>> /\ Head(out) = Head(orig)
         THEN <<Head(out)>> \o WithoutInserted(Tail(out), Tail(orig))
         ELSE WithoutInserted(Tail(out), orig)

\* C7: the scenario file, default configuration: planning yields the two tasks
\* file and method; once every task got its answer the output holds two
\* inserted blocks, one before the package line and one before bar, and every
\* original line unchanged.
C7_Scenario ==
    (PlanningDone /\ parsed_file \in ScenarioFiles /\ config = DefaultConfig) =>
        /\ pc # "raised"
        /\ Len(tasks) = 2
        /\ tasks[1].element_type = "file"
        /\ tasks[2].element_type = "method"
        /\ (pc = "patched" /\ Len(completed) = Len(tasks)) =>
              /\ Cardinality(InsertedOpeners) = 2
              /\ \E k \in InsertedOpeners : \A p \in LinesAt(PackageLine) : k < p
              /\ \E k \in InsertedOpeners :
                    /\ \A p \in LinesAt(PackageLine) : p < k
                    /\ \A b \in LinesAt(BarLine) : k < b
              /\ WithoutInserted(OutLines, source_lines) = source_lines

-----------------------------------------------------------------------------
(* Properties of the dependency graph *)

OnGraph == entry = "DependencyGraph"

\* C16: after any sequence of add_dependency calls and after build_dependency_graph,
\* B is in edges[A] if and only if A is in reverse_edges[B], for all names A and B
C16_EdgesSymmetric ==
    OnGraph =>
        \A a \in GraphNames, b \in GraphNames :
            b \in get_dependencies(edges, a) <=> a \in get_dependents(reverse_edges, b)

\* an edge added by hand on top of a built graph
C16_Witness ==
    /\ OnGraph
    /\ pc = "added"
    /\ EdgeCount(edges) = 2
    /\ edges # build_dependency_graph(all_classes).edges

\* C17: the graph built by build_dependency_graph has no self-edge: no class A,
\* also one with a member of its own type, is in edges[A]
C17_NoSelfEdge ==
    (OnGraph /\ pc = "built") =>
        \A a \in DOMAIN all_classes : a \notin get_dependencies(edges, a)

\* C18: after build_dependency_graph both endpoints of every edge are keys of the
\* class set; a dependency that resolves to no class of the project gives no edge
C18_EndpointsAreClasses ==
    (OnGraph /\ pc = "built") =>
        /\ DOMAIN edges \subseteq DOMAIN all_classes
        /\ \A a \in DOMAIN edges : edges[a] \subseteq DOMAIN all_classes
        /\ DOMAIN reverse_edges \subseteq DOMAIN all_classes
        /\ \A c \in DOMAIN all_classes :
              \A d \in all_classes[c].dependencies :
                  resolve_class_name(all_classes, d, all_classes[c].package)
                        \notin DOMAIN all_classes
                  => resolve_class_name(all_classes, d, all_classes[c].package)
                        \notin get_dependencies(edges, c)

\* a built graph with an edge, of a project with a dependency that does not resolve
C18_Witness ==
    /\ OnGraph
    /\ pc = "built"
    /\ EdgeCount(edges) >= 1
    /\ \E c \in DOMAIN all_classes :
          \E d \in all_classes[c].dependencies :
              resolve_class_name(all_classes, d, all_classes[c].package)
                    \notin DOMAIN all_classes

-----------------------------------------------------------------------------
(* Properties of find_circular_dependencies *)

OnCycles == entry = "find_circular_dependencies"

\* the graph A -> B -> C -> A
ThreeCycle ==
    edges = build_dependency_graph(ProjectOf({<<Name("p", "A"), Name("p", "B")>>,
                                              <<Name("p", "B"), Name("p", "C")>>,
                                              <<Name("p", "C"), Name("p", "A")>>})).edges

Elements(seq) == {seq[i] : i \in 1..Len(seq)}

\* C19: on the graph A -> B -> C -> A find_circular_dependencies reports a cycle
\* that contains all three classes, whatever the order the classes are iterated in
C19_ThreeCycleFound ==
    (OnCycles /\ pc = "returned" /\ ThreeCycle) =>
        \E i \in 1..Len(result) : Elements(result[i]) = CycleClasses

\* the traversal of A -> B -> C -> A started from C and has returned
C19_Witness ==
    /\ OnCycles
    /\ pc = "returned"
    /\ ThreeCycle
    /\ Len(result) >= 1
    /\ result[1][1] = Name("p", "C")

\* C20: every reported cycle starts and ends with the same class, repeats no other
\* class, and each consecutive pair of its elements is an edge of the graph
C20_CyclesArePathSlices ==
    OnCycles =>
        \A i \in 1..Len(cycles) :
            LET c == cycles[i]
            IN  /\ Len(c) >= 2
                /\ c[1] = c[Len(c)]
                /\ \A j, k \in 1..(Len(c) - 1) : c[j] = c[k] => j = k
                /\ \A j \in 1..(Len(c) - 1) : c[j + 1] \in get_dependencies(edges, c[j])

\* a cycle of two classes was reported at the end of a path that began outside it
C20_Witness ==
    /\ OnCycles
    /\ pc = "returned"
    /\ \E i \in 1..Len(result) :
          /\ Len(result[i]) = 3
          /\ \E c \in CycleClasses :
                /\ c \notin Elements(result[i])
                /\ result[i][1] \in get_dependencies(edges, c)
                /\ get_dependents(reverse_edges, c) = {}

-----------------------------------------------------------------------------
(* Properties of a run *)

OnRun == entry = "process_repository"

OutputOf(f) == output_file_path(java_files[f].path, config.file_suffix)

\* C11: when an exception is raised while the comments of a file are planned,
\* requested or reconciled, the output written for the file is its original text,
\* and the run does not end with a fatal error
C11_FailedFileKeepsSource ==
    OnRun =>
        /\ \A f \in DOMAIN worker :
              (worker[f].pc = "done" /\ worker[f].raised = "generate_comments_async")
              => \E w \in written :
                    w.path = OutputOf(f) /\ w.content = java_files[f].source_code
        /\ exit_status # 1

\* C12: parse_file does not raise when the parser rejects a file: the worker gets
\* a result object for it and goes on to the output of the file
C12_ParseFailureGivesResult ==
    OnRun =>
        \A f \in DOMAIN worker :
            (worker[f].pc \notin {"queued", "parse"} /\ ~java_files[f].parses)
            => /\ worker[f].raised # "parse_file"
               /\ worker[f].parsed_content # "none"

\* C13: a worker returns True or False and never raises to the pool; True only
\* once the output of its file is written, False whenever an exception was raised
C13_WorkerReturnsPassFail ==
    entry \in {"process_repository", "save_commented_file"} =>
        \A f \in DOMAIN worker :
            /\ worker[f].pc # "raised"
            /\ worker[f].pc = "done" =>
                  /\ worker[f].result \in BOOLEAN
                  /\ worker[f].result = TRUE => \E w \in written : w.path = OutputOf(f)
                  /\ worker[f].raised # "none" => worker[f].result = FALSE

\* two workers are done, one after parse_file raised and one after the call of
\* the comment generator raised
C13_Witness ==
    /\ OnRun
    /\ \E f, g \in DOMAIN worker :
          /\ worker[f].pc = "done" /\ worker[f].raised = "parse_file"
          /\ worker[f].result = FALSE
          /\ worker[g].pc = "done" /\ worker[g].raised = "generate_comments_async"
          /\ worker[g].result = FALSE

\* C14: the output paths of distinct files of a project are distinct: no file
\* under the output directory is written by two workers
C14_OutputPathsDistinct ==
    entry = "save_commented_file" =>
        \A v \in written, w \in written : v.path = w.path => v.by = w.by

\* two files of the same name in different directories, and a file whose name is
\* the output name of another one, have been written
C14_Witness ==
    /\ entry = "save_commented_file"
    /\ \E v \in written, w \in written :
          /\ v.by # w.by
          /\ \/ java_files[v.by].path.name = java_files[w.by].path.name
             \/ /\ java_files[v.by].path.dir = java_files[w.by].path.dir
                /\ v.path.name = java_files[w.by].path.name

\* C15: a source that cannot be cloned, does not exist, is no directory or whose
\* output directory cannot be made ends the run with a non-zero exit status
C15_SourceFailureIsFatal ==
    (OnRun /\ pc = "exited" /\ SourceRaises(source) # "none") => exit_status > 0

-----------------------------------------------------------------------------
(* Properties of add_comments without an API key                           *)

\* C29: without an API key the client stays unset and add_comments returns the
\* original source unchanged: nothing is planned and no request is made
C29_NoKeyNoWork ==
    (entry = "add_comments" /\ ~config.openai_api_key) =>
        /\ client = FALSE
        /\ source_lines = <<>>
        /\ tasks = <<>>
        /\ requests = <<>>
        /\ completed = <<>>
        /\ pc \in {"enter", "add_comments", "returned"}
        /\ pc = "returned" => result = parsed_file.source_code

\* add_comments has returned without a key on a file for which planning with a
\* client raises, and on one for which it plans tasks
C29_Witness ==
    /\ entry = "add_comments"
    /\ ~config.openai_api_key
    /\ pc = "returned"
    /\ result = parsed_file.source_code
    /\ parsed_file.classes # <<>>
    /\ LET plan == plan_comments(parsed_file, Split(parsed_file.source_code, NL),
                                 [config EXCEPT !.openai_api_key = TRUE])
       IN  plan.raised \/ plan.tasks # <<>>

-----------------------------------------------------------------------------
(* Properties of the batches of _generate_all_comments                     *)

\* the batch requests made so far, in the order they were made
BatchRequestSeq == SelectSeq(requests, LAMBDA r : r.kind = "batch")
\* tasks[i:i+n] of the b-th batch of size n
SliceOf(ts, b, n) == SubSeq(ts, (b - 1) * n + 1, Min(b * n, Len(ts)))
RECURSIVE Concat(_)
Concat(seqs) == IF seqs = <<>> THEN <<>> ELSE Head(seqs) \o Concat(Tail(seqs))

\* C23: the tasks are grouped into consecutive batches of the configured batch
\* size, each task in exactly one batch, in order, every batch but the last of
\* exactly that size, each batch sent as one completion request
C23_BatchesOfConfiguredSize ==
    Generating =>
        /\ \A b \in 1..Len(BatchRequestSeq) :
              BatchRequestSeq[b].tasks = SliceOf(tasks, b, config.batch_size)
        /\ pc = "generated" =>
              Concat([b \in 1..Len(BatchRequestSeq) |-> BatchRequestSeq[b].tasks]) = tasks

\* what the code does: the same with the size 7 of the generator, whatever
\* Config.batch_size is
BatchesOfSeven ==
    Generating =>
        /\ \A b \in 1..Len(BatchRequestSeq) :
              BatchRequestSeq[b].tasks = SliceOf(tasks, b, batch_size)
        /\ pc = "generated" =>
              Concat([b \in 1..Len(BatchRequestSeq) |-> BatchRequestSeq[b].tasks]) = tasks

\* C30: whatever the completion calls answer, the returned list holds planned
\* tasks only, each at most once, and each planned task is sent in exactly one
\* batch request and in at most one individual request
C30_ReturnedTasksPlannedOnce ==
    Generating =>
        /\ \A j \in 1..Len(completed) : \E i \in 1..Len(tasks) : completed[j].task = tasks[i]
        /\ \A j1, j2 \in 1..Len(completed) :
              completed[j1].task = completed[j2].task => j1 = j2
        /\ \A i \in 1..Len(tasks) :
              LET sent == {k \in BatchRequests :
                              \E m \in 1..Len(requests[k].tasks) :
                                  requests[k].tasks[m] = tasks[i]}
              IN  /\ Cardinality(sent) =< 1
                  /\ pc = "generated" => Cardinality(sent) = 1
                  /\ Cardinality(SinglesOf(tasks[i])) =< 1
        /\ pc = "generated" => result = completed

\* a call over two batches has returned: one batch raised and an individual
\* retry of it failed, the other batch answered too little
C30_Witness ==
    /\ Generating
    /\ pc = "generated"
    /\ Len(tasks) > batch_size
    /\ \E k \in BatchRequests : requests[k].outcome = "raised"
    /\ \E k \in 1..Len(requests) :
          requests[k].kind = "single" /\ requests[k].outcome = "raised"
    /\ \E k \in BatchRequests :
          /\ requests[k].outcome = "ok"
          /\ \E m \in 1..Len(requests[k].tasks) : ~HasPair(requests[k].tasks[m])
    /\ result # <<>>

-----------------------------------------------------------------------------
(* Properties of the field tasks *)

\* the fields of the file, with the 1-based line of their declaration
FieldsOfFile ==
    UNION {{parsed_file.classes[c].fields[f] : f \in 1..Len(parsed_file.classes[c].fields)}
              : c \in 1..Len(parsed_file.classes)}

\* C27: the inline comment of a field declared on the 1-based line L is appended
\* to the field's own line, index L-1 of the original lines, and the task
\* changes no other original line
C27_FieldCommentOnOwnLine ==
    (entry = "add_comments" /\ pc = "patched") =>
        \A j \in 1..Len(completed) :
            completed[j].task.element_type = "field" =>
                \E field \in FieldsOfFile :
                    /\ field.name = completed[j].task.prompt
                    /\ ApplyPair(source_lines, completed[j]) =
                          [source_lines EXCEPT ![field.line_number] =
                              RStrip(@) \o <<" ", " ">> \o completed[j].text]

\* what the code does: the comment goes to the line below the declaration
FieldCommentOnNextLine ==
    (entry = "add_comments" /\ pc = "patched") =>
        \A j \in 1..Len(completed) :
            completed[j].task.element_type = "field" =>
                \E field \in FieldsOfFile :
                    /\ field.name = completed[j].task.prompt
                    /\ ApplyPair(source_lines, completed[j]) =
                          [source_lines EXCEPT ![field.line_number + 1] =
                              RStrip(@) \o <<" ", " ">> \o completed[j].text]

-----------------------------------------------------------------------------
(* Termination of find_circular_dependencies *)

\* the classes reached from the classes of frontier along one or more edges
RECURSIVE ReachFrom(_, _)
ReachFrom(frontier, seen) ==
    LET next == UNION {get_dependencies(edges, n) : n \in frontier} \ seen
    IN  IF next = {} THEN seen ELSE ReachFrom(next, seen \cup next)

\* the graph has a directed cycle among the classes of the project
HasCycle == \E n \in DOMAIN all_classes : n \in ReachFrom({n}, {})

\* C28: find_circular_dependencies terminates, and the list it returns is
\* non-empty if and only if the dependency graph has a directed cycle among the
\* classes of the project
C28_TerminatesAndDetects ==
    /\ <>(pc = "returned")
    /\ [](pc = "returned" => (result # <<>> <=> HasCycle))

\* the call has returned cycles of a graph whose first class is on no cycle
C28_Witness ==
    /\ OnCycles
    /\ pc = "returned"
    /\ result # <<>>
    /\ HasCycle
    /\ \E n \in DOMAIN all_classes : n \notin ReachFrom({n}, {})

-----------------------------------------------------------------------------
(* Properties of the file task *)

FileTasks == {j \in 1..Len(tasks) : tasks[j].element_type = "file"}
Planning(lines) == PlanningDone /\ pc # "raised" /\ lines = source_lines

IsBlank(line) == Strip(line) = <<>>
IsPackageLine(line) == IsPrefix(<<"package", " ">>, Strip(line))
IsImportLine(line) == IsPrefix(<<"import", " ">>, Strip(line))
\* a line that is neither blank nor a line comment
IsRealCode(line) == ~IsBlank(line) /\ ~StartsLineComment(Strip(line))

\* a block-comment opener stands in the first FileScanLines lines, and above it
\* only blank lines, comments, package and import lines
OpenerBeforeCode(lines) ==
    \E i \in 1..Min(Len(lines), FileScanLines) :
        /\ StartsBlockComment(Strip(lines[i]))
        /\ \A j \in 1..(i - 1) :
              \/ IsBlank(lines[j])
              \/ StartsLineComment(Strip(lines[j]))
              \/ StartsBlockComment(Strip(lines[j]))
              \/ IsPackageLine(lines[j])
              \/ IsImportLine(lines[j])

\* C25: a file task is planned if and only if no block-comment opener stands in
\* the first 10 lines above every line that is neither blank, comment, package
\* nor import line; a block comment below the package or import lines counts
C25_FileTaskIffNoOpener ==
    \A lines \in {source_lines} :
        (Planning(lines) /\ config.include_file_comments) =>
            (FileTasks # {} <=> ~OpenerBeforeCode(lines))

\* what the code does: the scan ends at the first line that is neither blank
\* nor a line comment, a package or import line included
OpenerBeforeAnyLine ==
    \A lines \in {source_lines} :
        (Planning(lines) /\ config.include_file_comments) =>
            (FileTasks # {} <=>
                ~\E i \in 1..Min(Len(lines), FileScanLines) :
                    /\ StartsBlockComment(Strip(lines[i]))
                    /\ \A j \in 1..(i - 1) : ~IsRealCode(lines[j]))

\* C26: the insert line of a file task is the index after the package line of
\* a file that has one, else the index of the first line that is neither blank
\* nor a line comment, and 0 where there is no such line
C26_FileTaskInsertLine ==
    \A lines \in {source_lines} :
        Planning(lines) =>
            \A j \in FileTasks :
                LET packages == {i \in 1..Len(lines) : IsPackageLine(lines[i])}
                    code == {i \in 1..Len(lines) : IsRealCode(lines[i])}
                    First(set) == CHOOSE i \in set : \A k \in set : i =< k
                IN  tasks[j].insert_line =
                       IF packages # {} THEN First(packages)
                       ELSE IF code # {} THEN First(code) - 1
                       ELSE 0

\* what the code does: the package line counts only as the first line that is
\* neither blank nor a line comment
PackageLineCountsWhenFirst ==
    \A lines \in {source_lines} :
        Planning(lines) =>
            \A j \in FileTasks :
                LET code == {i \in 1..Len(lines) : IsRealCode(lines[i])}
                    first == CHOOSE i \in code : \A k \in code : i =< k
                IN  tasks[j].insert_line =
                       IF code = {} THEN 0
                       ELSE IF IsPackageLine(lines[first]) THEN first
                       ELSE first - 1

-----------------------------------------------------------------------------
(* Properties of the diagrams *)

DiagramsReturned == entry = "generate_all" /\ pc = "returned"
InResult(file) == \E j \in 1..Len(result) : result[j] = file

\* C21: a sub-output that raises takes no other sub-output with it: every
\* sub-output that succeeds on its own, those after the failing one included,
\* is in the list generate_all returns
C21_SubOutputsIndependent ==
    (DiagramsReturned /\ HAS_GRAPHVIZ) =>
        \A i \in 1..Len(SubOutputs) :
            (/\ SubOutputs[i] \notin raises
             /\ Returned(SubOutputs[i], project_info, config) # None)
                => InResult(FileOf(SubOutputs[i], config))

\* what the code does: the sub-outputs before the first one that raises
OnlyThoseBeforeTheFailure ==
    (DiagramsReturned /\ HAS_GRAPHVIZ) =>
        \A i \in 1..Len(SubOutputs) :
            InResult(FileOf(SubOutputs[i], config)) <=>
                /\ SubOutputs[i] \in Reached(raises) \ raises
                /\ Returned(SubOutputs[i], project_info, config) # None

\* C22: with a cap of k and n classes the class diagram has exactly min(k, n)
\* class nodes, those of the first min(k, n) classes in declaration order
C22_ClassDiagramCap ==
    (DiagramsReturned /\ class_diagram.rendered) =>
        LET shown == Min(config.max_classes_in_diagram, Len(project_info.classes))
        IN  /\ Cardinality(NodesOf(class_diagram)) = shown
            /\ NodesOf(class_diagram) = {project_info.classes[i].name : i \in 1..shown}

\* what the code does: one node statement for each of the first min(k, n)
\* classes, in declaration order, which are as many nodes when their simple
\* names differ
CapOnNodeStatements ==
    (DiagramsReturned /\ class_diagram.rendered) =>
        LET shown == Min(config.max_classes_in_diagram, Len(project_info.classes))
        IN  /\ class_diagram.body = [i \in 1..shown |-> project_info.classes[i].name]
            /\ (\A i, j \in 1..shown :
                    project_info.classes[i].name = project_info.classes[j].name => i = j)
                  => Cardinality(NodesOf(class_diagram)) = shown

\* C24: without the renderer generate_all still returns the report file
C24_ReportWithoutRenderer ==
    (DiagramsReturned /\ ~HAS_GRAPHVIZ /\ "architecture_report" \notin raises) =>
        InResult(FileOf("architecture_report", config))

====
